---- MODULE Spec2Model ----
(***************************************************************************)
(* Truth-or-dare question store: the query construction and tag filtering  *)
(* of Database.GetQuestions, the row mapping, and the transactional write  *)
(* path of Database.AddQuestion (src/database.go), over the schema of      *)
(* init.sql (src/unnamed/part_004); the connection loop of NewDatabase;    *)
(* and the handlers of the static game page (src/unnamed/part_002).        *)
(*                                                                         *)
(* A Go string is a sequence of one-character strings, so that             *)
(* strings.Split, GROUP_CONCAT and the case-insensitive collation of the   *)
(* columns are computed and not assumed.  A task text is never inspected   *)
(* by the code and is kept opaque.                                         *)
(***************************************************************************)
EXTENDS Integers, Sequences, FiniteSets, TLC

VARIABLES
    questions,      \* table questions: rows [id, language, type, task]
    tags,           \* table tags: rows [id, name]
    question_tags,  \* table question_tags: rows [question_id, tag_id]
    autoQuestion,   \* AUTO_INCREMENT counter of questions.id
    autoTag,        \* AUTO_INCREMENT counter of tags.id
    tx,             \* the AddQuestion call of the running client and its transaction
    other,          \* the AddQuestion call of a second client, while it is not running
    call,           \* the last read call (GetQuestions, GetTags) and what it returned
    startup,        \* NewDatabase: its loop counter, handle, error and return
    page            \* the game page: its script variables and what it displays

vars == <<questions, tags, question_tags, autoQuestion, autoTag, tx, other, call,
          startup, page>>

(***************************************************************************)
(* Bounds of the model.                                                    *)
(***************************************************************************)
MaxTags == 2        \* longest tag list passed to GetQuestions / AddQuestion
MaxQuestions == 2   \* most question rows in storage (AddQuestion calls begun)
MaxPlayers == 3     \* most players added to the game page
MaxTurns == 7       \* most tasks selected in one game on the page

(***************************************************************************)
(* String values.                                                          *)
(***************************************************************************)
Empty == <<>>
en == <<"e", "n">>
EN == <<"E", "N">>
de == <<"d", "e">>
truth == <<"t", "r", "u", "t", "h">>
dare == <<"d", "a", "r", "e">>
adult == <<"1", "8", "+">>
alcohol == <<"a", "l", "c">>
ALCOHOL == <<"A", "L", "C">>
adultAlcohol == <<"1", "8", "+", ",", "a", "l", "c">>
one == <<"1">>

TagNames == {adult, alcohol, ALCOHOL, adultAlcohol, one}

RECURSIVE SeqsUpTo(_, _)
\* every sequence over S of length at most n
SeqsUpTo(S, n) ==
    IF n = 0 THEN {<<>>}
    ELSE LET shorter == SeqsUpTo(S, n - 1)
         IN  shorter \cup {Append(s, x) : s \in {t \in shorter : Len(t) = n - 1}, x \in S}

Range(s) == {s[i] : i \in DOMAIN s}

(***************************************************************************)
(* Collation utf8mb4_unicode_ci of the columns language, task and name     *)
(* (and, as the table default, of the ENUM type): comparison ignores       *)
(* letter case.                                                            *)
(***************************************************************************)
UpperCase ==
    <<"A", "B", "C", "D", "E", "F", "G", "H", "I", "J", "K", "L", "M",
      "N", "O", "P", "Q", "R", "S", "T", "U", "V", "W", "X", "Y", "Z">>
LowerCase ==
    <<"a", "b", "c", "d", "e", "f", "g", "h", "i", "j", "k", "l", "m",
      "n", "o", "p", "q", "r", "s", "t", "u", "v", "w", "x", "y", "z">>

LowerOf ==
    [c \in Range(UpperCase) |-> LowerCase[CHOOSE i \in DOMAIN UpperCase : UpperCase[i] = c]]

Lower(c) == IF c \in DOMAIN LowerOf THEN LowerOf[c] ELSE c

Fold(s) == [i \in DOMAIN s |-> Lower(s[i])]

\* a = b as MySQL evaluates it on a utf8mb4_unicode_ci column
CollEq(a, b) == Fold(a) = Fold(b)

\* x IN (list) on such a column
CollIn(x, list) == \E i \in DOMAIN list : CollEq(x, list[i])

(***************************************************************************)
(* Go values passed as query arguments ([]interface{}): a string or an int. *)
(***************************************************************************)
StringArg(s) == [kind |-> "string", val |-> s]
IntArg(n) == [kind |-> "int", val |-> n]

\* *QueryConfig: nil, or a struct with the field MatchAllTags
NilConfig == [nil |-> TRUE, MatchAllTags |-> FALSE]
Config(matchAll) == [nil |-> FALSE, MatchAllTags |-> matchAll]
Configs == {NilConfig, Config(FALSE), Config(TRUE)}

(***************************************************************************)
(* The query text is a sequence of pieces; "?" and ",?" are the            *)
(* placeholders, every other piece is SQL text of the source.              *)
(***************************************************************************)
SelectFrom == "SELECT DISTINCT q.id, q.language, q.type, q.task, GROUP_CONCAT(t.name) as tags FROM questions q LEFT JOIN question_tags qt ON q.id = qt.question_id LEFT JOIN tags t ON qt.tag_id = t.id"
JoinOpen == " INNER JOIN ( SELECT qt.question_id FROM question_tags qt INNER JOIN tags t ON qt.tag_id = t.id WHERE t.name IN ("
JoinHaving == ") GROUP BY qt.question_id HAVING COUNT(DISTINCT t.name) = "
JoinClose == ") matching_tags ON q.id = matching_tags.question_id"
Where == " WHERE "
And == " AND "
LanguageEq == "q.language = "
TypeEq == "q.type = "
NameIn == "t.name IN ("
CloseParen == ")"
GroupBy == " GROUP BY q.id"

Placeholders == {"?", ",?"}

RECURSIVE Repeat(_, _)
\* strings.Repeat(s, count) on a sequence of pieces; count < 0 panics in Go
\* and is never passed (len(tags) > 0 guards both calls)
Repeat(s, count) == IF count <= 0 THEN <<>> ELSE s \o Repeat(s, count - 1)

RECURSIVE JoinPieces(_, _)
\* strings.Join(elems, sep) on sequences of pieces
JoinPieces(elems, sep) ==
    IF Len(elems) = 0 THEN <<>>
    ELSE IF Len(elems) = 1 THEN elems[1]
    ELSE elems[1] \o <<sep>> \o JoinPieces(Tail(elems), sep)

\* "t.name IN (?%s)" with strings.Repeat(",?", n-1)
InList(n) == <<"?">> \o Repeat(<<",?">>, n - 1)

TagArgs(tagList) == [i \in DOMAIN tagList |-> StringArg(tagList[i])]

\* the language written into the text between quotes, instead of a placeholder
LanguageConditionInterpolated(language) ==
    IF language # Empty THEN <<<<LanguageEq, "'">> \o language \o <<"'">>>> ELSE <<>>

\* lines 108-111: the language condition, when a language is given
LanguageCondition(language) ==
    IF language # Empty THEN <<<<LanguageEq, "?">>>> ELSE <<>>

\* lines 113-116: the type condition, when a type is given
TypeCondition(qType) ==
    IF qType # Empty THEN <<<<TypeEq, "?">>>> ELSE <<>>

\* a nil config taken for a request of ALL mode
UseAllModeNilIsAll(tagList, config) ==
    Len(tagList) > 0 /\ (config.nil \/ config.MatchAllTags)

\* match-all taken whenever a config is passed, MatchAllTags not looked at
UseAllModeIgnoringFlag(tagList, config) == Len(tagList) > 0 /\ ~config.nil

\* lines 119-120: match-all is asked for, with tags to match
UseAllMode(tagList, config) ==
    Len(tagList) > 0 /\ ~config.nil /\ config.MatchAllTags

\* GetQuestions, lines 100-150: the query text and its argument list
BuildQuery(language, qType, tagList, config) ==
    LET matchAll == UseAllMode(tagList, config)
        matchAny == Len(tagList) > 0 /\ ~matchAll
        whereConditions ==
            LanguageCondition(language)
            \o TypeCondition(qType)
            \o (IF matchAny
                THEN <<<<NameIn>> \o InList(Len(tagList)) \o <<CloseParen>>>>
                ELSE <<>>)
        args ==
            (IF language # Empty THEN <<StringArg(language)>> ELSE <<>>)
            \o (IF qType # Empty THEN <<StringArg(qType)>> ELSE <<>>)
            \o (IF matchAll
                THEN TagArgs(tagList) \o <<IntArg(Len(tagList))>>
                ELSE IF matchAny THEN TagArgs(tagList) ELSE <<>>)
        baseQuery ==
            <<SelectFrom>>
            \o (IF matchAll
                THEN <<JoinOpen>> \o InList(Len(tagList))
                     \o <<JoinHaving, "?", JoinClose>>
                ELSE <<>>)
            \o (IF Len(whereConditions) > 0
                THEN <<Where>> \o JoinPieces(whereConditions, And)
                ELSE <<>>)
            \o <<GroupBy>>
    IN  [text |-> baseQuery, args |-> args]

(***************************************************************************)
(* Storage: how MySQL evaluates a text the builder sent, with its          *)
(* arguments bound to the placeholders from left to right.                 *)
(***************************************************************************)
At(text, i) == IF i \in DOMAIN text THEN text[i] ELSE ""

NumPlaceholders(text) == Cardinality({i \in DOMAIN text : text[i] \in Placeholders})

\* the argument bound to the placeholder at position i of the text
Bound(text, args, i) == args[Cardinality({j \in 1..i : text[j] \in Placeholders})]

RECURSIVE CommaRun(_, _)
\* how many ",?" pieces stand at positions i, i+1, ...
CommaRun(text, i) == IF At(text, i) = ",?" THEN 1 + CommaRun(text, i + 1) ELSE 0

\* the arguments bound to the list (?,?,...) whose "?" is at position i
BoundList(text, args, i) ==
    [k \in 1..(1 + CommaRun(text, i + 1)) |-> Bound(text, args, i + k - 1)]

\* length of the condition starting at position i, 0 when there is none
CondLen(text, i) ==
    IF At(text, i) \in {LanguageEq, TypeEq} /\ At(text, i + 1) = "?" THEN 2
    ELSE IF At(text, i) = NameIn /\ At(text, i + 1) = "?"
            /\ At(text, i + 2 + CommaRun(text, i + 2)) = CloseParen
         THEN 3 + CommaRun(text, i + 2)
    ELSE 0

RECURSIVE CondsFrom(_, _)
\* positions of the conditions of "cond AND cond ... GROUP BY q.id" from i on;
\* {0} marks a text that is not of that form
CondsFrom(text, i) ==
    LET n == CondLen(text, i)
    IN  IF n = 0 THEN {0}
        ELSE IF At(text, i + n) = GroupBy /\ i + n = Len(text) THEN {i}
        ELSE IF At(text, i + n) = And THEN {i} \cup CondsFrom(text, i + n + 1)
        ELSE {0}

\* length of the INNER JOIN (...) matching_tags part starting at position 2
JoinLen(text) ==
    IF At(text, 2) = JoinOpen /\ At(text, 3) = "?"
       /\ At(text, 4 + CommaRun(text, 4)) = JoinHaving
       /\ At(text, 5 + CommaRun(text, 4)) = "?"
       /\ At(text, 6 + CommaRun(text, 4)) = JoinClose
    THEN 5 + CommaRun(text, 4)
    ELSE 0

\* positions of the WHERE conditions; {0} marks a syntax error
Conds(text) ==
    LET i == 2 + JoinLen(text)
    IN  IF At(text, 1) # SelectFrom THEN {0}
        ELSE IF At(text, i) = GroupBy /\ i = Len(text) THEN {}
        ELSE IF At(text, i) = Where THEN CondsFrom(text, i + 1)
        ELSE {0}

\* the driver refuses a wrong argument count, the server a malformed text
QueryFails(text, args) == NumPlaceholders(text) # Len(args) \/ 0 \in Conds(text)

Digits == <<"1", "2", "3", "4", "5", "6", "7", "8", "9">>

DigitVal(c) ==
    IF \E d \in DOMAIN Digits : Digits[d] = c
    THEN CHOOSE d \in DOMAIN Digits : Digits[d] = c
    ELSE 0

IsDigit(c) == c = "0" \/ DigitVal(c) > 0

RECURSIVE PrefixValue(_, _)
PrefixValue(s, acc) ==
    IF Len(s) = 0 \/ ~IsDigit(Head(s)) THEN acc
    ELSE PrefixValue(Tail(s), 10 * acc + DigitVal(Head(s)))

\* a string in a numeric context: the value of its leading digits, 0 when it
\* has none (signs, fractions and exponents are outside the model's alphabet)
ToNumber(s) == PrefixValue(s, 0)

\* ENUM('truth', 'dare') in a numeric context: the index of the value
EnumIndex(value) ==
    IF CollEq(value, truth) THEN 1 ELSE IF CollEq(value, dare) THEN 2 ELSE 0

\* column = ? compared byte by byte, as under a binary collation
ColumnEqBinary(value, arg) ==
    IF arg.kind = "string" THEN value = arg.val ELSE ToNumber(value) = arg.val

\* column = ? on a VARCHAR column: by the collation against a string,
\* as numbers against an integer
ColumnEq(value, arg) ==
    IF arg.kind = "string" THEN CollEq(value, arg.val) ELSE ToNumber(value) = arg.val

\* q.type = ? on the ENUM column
EnumEq(value, arg) ==
    IF arg.kind = "string" THEN CollEq(value, arg.val) ELSE EnumIndex(value) = arg.val

\* COUNT(...) = ?: as numbers
CountEq(count, arg) ==
    IF arg.kind = "int" THEN count = arg.val ELSE count = ToNumber(arg.val)

ColumnIn(value, list) == \E k \in DOMAIN list : ColumnEq(value, list[k])

TagsOf(id, T, QT) == {t \in T : [question_id |-> id, tag_id |-> t.id] \in QT}

\* the two joins as INNER JOINs: a question without tags has no row
LeftJoinedInner(Q, T, QT) ==
    UNION {{[q |-> q, null |-> FALSE, name |-> t.name] : t \in TagsOf(q.id, T, QT)}
           : q \in Q}

\* FROM questions q LEFT JOIN question_tags qt ... LEFT JOIN tags t ...
LeftJoined(Q, T, QT) ==
    UNION {IF TagsOf(q.id, T, QT) = {}
           THEN {[q |-> q, null |-> TRUE, name |-> Empty]}
           ELSE {[q |-> q, null |-> FALSE, name |-> t.name] : t \in TagsOf(q.id, T, QT)}
           : q \in Q}

\* the subquery matching_tags: the question ids whose number of distinct
\* tag names among the listed ones equals the bound count
MatchingTags(list, count, T, QT) ==
    LET rows == UNION {{[question_id |-> l.question_id, name |-> t.name]
                        : t \in {u \in T : u.id = l.tag_id /\ ColumnIn(u.name, list)}}
                       : l \in QT}
        distinctNames(id) == {Fold(r.name) : r \in {x \in rows : x.question_id = id}}
    IN  {id \in {r.question_id : r \in rows} :
            CountEq(Cardinality(distinctNames(id)), count)}

\* one joined row against the WHERE condition at position i
CondHolds(text, args, i, row) ==
    IF text[i] = LanguageEq THEN ColumnEq(row.q.language, Bound(text, args, i + 1))
    ELSE IF text[i] = TypeEq THEN EnumEq(row.q.type, Bound(text, args, i + 1))
    ELSE ~row.null /\ ColumnIn(row.name, BoundList(text, args, i + 1))

\* the joined rows that survive the INNER JOIN and the WHERE clause
Selected(text, args, Q, T, QT) ==
    LET joined ==
            IF JoinLen(text) = 0 THEN LeftJoined(Q, T, QT)
            ELSE LET matching ==
                         MatchingTags(BoundList(text, args, 3),
                                      Bound(text, args, 5 + CommaRun(text, 4)), T, QT)
                 IN  {r \in LeftJoined(Q, T, QT) : r.q.id \in matching}
    IN  {r \in joined : \A i \in Conds(text) : CondHolds(text, args, i, r)}

\* no GROUP BY: one result row per joined row
GroupsPerRow(text, args, Q, T, QT) ==
    {[q |-> r.q, names |-> IF r.null THEN {} ELSE {r.name}]
     : r \in Selected(text, args, Q, T, QT)}

\* GROUP BY q.id: each group with the non-NULL tag names of its rows
Groups(text, args, Q, T, QT) ==
    LET rows == Selected(text, args, Q, T, QT)
    IN  {[q |-> q, names |-> {r.name : r \in {x \in rows : x.q = q /\ ~x.null}}]
         : q \in {r.q : r \in rows}}

Perms(S) ==
    {f \in [1..Cardinality(S) -> S] : \A i, j \in DOMAIN f : i # j => f[i] # f[j]}

RECURSIVE GroupConcat(_)
\* GROUP_CONCAT over the names in the order given, separator ","
GroupConcat(names) ==
    IF Len(names) = 0 THEN Empty
    ELSE IF Len(names) = 1 THEN names[1]
    ELSE names[1] \o <<",">> \o GroupConcat(Tail(names))

\* the result rows a group can produce: GROUP_CONCAT is NULL for no name and
\* concatenates in an order the server chooses
GroupRows(g) ==
    IF g.names = {}
    THEN {[id |-> g.q.id, language |-> g.q.language, type |-> g.q.type,
           task |-> g.q.task, tags |-> [Valid |-> FALSE, String |-> Empty]]}
    ELSE {[id |-> g.q.id, language |-> g.q.language, type |-> g.q.type,
           task |-> g.q.task, tags |-> [Valid |-> TRUE, String |-> GroupConcat(order)]]
          : order \in Perms(g.names)}

\* the query with LIMIT 1 and no ORDER BY: one row, of any group
RowSeqsLimited(groups) ==
    IF groups = {} THEN {<<>>}
    ELSE UNION {{<<r>> : r \in GroupRows(g)} : g \in groups}

RECURSIVE RowSeqs(_)
\* the groups' rows in every order the server may deliver them
RowSeqs(groups) ==
    IF groups = {} THEN {<<>>}
    ELSE UNION {{<<r>> \o rest : r \in GroupRows(g), rest \in RowSeqs(groups \ {g})}
                : g \in groups}

\* every row sequence db.Query may deliver for the text and arguments
QueryRows(text, args, Q, T, QT) == RowSeqs(Groups(text, args, Q, T, QT))

(***************************************************************************)
(* Row mapping of GetQuestions, lines 158-172.                             *)
(***************************************************************************)
RECURSIVE Split(_)
\* strings.Split(s, ",")
Split(s) ==
    IF \E i \in DOMAIN s : s[i] = ","
    THEN LET i == CHOOSE k \in DOMAIN s : s[k] = "," /\ \A j \in 1..(k - 1) : s[j] # ","
         IN  <<SubSeq(s, 1, i - 1)>> \o Split(SubSeq(s, i + 1, Len(s)))
    ELSE <<s>>

\* rows.Scan into a Question, then the split of the tags column
Scan(row) ==
    [ID |-> row.id, Language |-> row.language, Type |-> row.type, Task |-> row.task,
     Tags |-> IF row.tags.Valid THEN Split(row.tags.String) ELSE <<>>]

MapRows(rows) == [i \in DOMAIN rows |-> Scan(rows[i])]

(***************************************************************************)
(* Inputs of the read path.                                                *)
(***************************************************************************)
Languages == {Empty, en, EN, de}
Types == {Empty, truth, dare}
TagLists == SeqsUpTo(TagNames, MaxTags)

NoCall == [op |-> "none"]
NoTx == [pc |-> "idle"]

\* a storage call and how it ended: "ok", "no rows", "end" or "error"
Entry(stmt, result) == [stmt |-> stmt, result |-> result]

\* the storage calls of a listing: the query, a Scan for each of k rows, and
\* the call that ended the loop of lines 159-172 (190-197 in GetTags)
ReadLog(k, last) ==
    <<Entry("Query", "ok")>> \o [i \in 1..k |-> Entry("Scan", "ok")] \o <<last>>

(***************************************************************************)
(* GetQuestions, lines 99-175: build the query, run it, map the rows.      *)
(* Storage is taken to answer (no failure of the connection or of a row    *)
(* while it is read).                                                      *)
(***************************************************************************)
GetQuestions(language, qType, tagList, config) ==
    LET b == BuildQuery(language, qType, tagList, config)
        request == [op |-> "GetQuestions", language |-> language, qType |-> qType,
                    tags |-> tagList, config |-> config,
                    query |-> b.text, args |-> b.args]
    IN  /\ call = NoCall
        /\ IF QueryFails(b.text, b.args)
           THEN call' = request @@ [questions |-> <<>>, err |-> "failed to fetch questions",
                                    log |-> <<Entry("Query", "error")>>]
           ELSE \E rows \in QueryRows(b.text, b.args, questions, tags, question_tags) :
                    call' = request @@ [questions |-> MapRows(rows), err |-> "nil",
                                        log |-> ReadLog(Len(rows), Entry("Next", "end"))]
        /\ UNCHANGED <<questions, tags, question_tags, autoQuestion, autoTag, tx, other,
                       startup, page>>

\* a request with tag names drawn from the set names
Read(names) ==
    \E language \in Languages, qType \in Types, tagList \in SeqsUpTo(names, MaxTags),
       config \in Configs :
        GetQuestions(language, qType, tagList, config)

\* the handler getQuestions writes the list it got and returns (src/main.go)
Respond ==
    /\ call # NoCall
    /\ call' = NoCall
    /\ UNCHANGED <<questions, tags, question_tags, autoQuestion, autoTag, tx, other,
                   startup, page>>

(***************************************************************************)
(* NewDatabase, lines 41-69.  startup holds the loop counter i, the handle *)
(* db and the error err of the code, how each attempt made so far ended,   *)
(* and what NewDatabase returned.  The data source name is built once from *)
(* the environment (lines 42-48): sql.Open fails on it at every attempt or *)
(* at none.                                                                *)
(***************************************************************************)
MaxAttempts == 10

NotStarted(dsn) ==
    [pc |-> "loop", dsn |-> dsn, i |-> 0, db |-> "nil", err |-> "nil",
     attempts |-> <<>>, returned |-> "none"]

\* NewDatabase has returned a Database at its first attempt
Started ==
    [pc |-> "returned", dsn |-> "valid", i |-> 0, db |-> "open", err |-> "nil",
     attempts |-> <<"connected">>, returned |-> "Database"]

(***************************************************************************)
(* The game page (src/unnamed/part_002): the script variables of lines     *)
(* 236-239, the display of the sections and of the start button, and the   *)
(* texts the page shows.  tasksFor is the sequence of players that         *)
(* taskPlayerInfo has named in the game on screen, and alert the message   *)
(* the last handler raised.                                                *)
(***************************************************************************)
truths == <<"Test truth 1", "Test truth 2", "Test truth 3">>
dares == <<"Test dare 1", "Test dare 2", "Test dare 3">>

ChooseText == [kind |-> "Choose Truth or Dare", task |-> ""]

\* the page as loaded
PageLoaded ==
    [players |-> <<>>, currentPlayerIndex |-> 0, usedTruths |-> <<>>, usedDares |-> <<>>,
     playerSetup |-> "block", gameArea |-> "none", startGameBtn |-> "none",
     currentPlayerInfo |-> Empty, nextPlayerInfo |-> Empty,
     taskText |-> ChooseText, taskPlayerInfo |-> Empty, tasksFor |-> <<>>,
     alert |-> ""]

(***************************************************************************)
(* Storages of the read path: the tags 18+ and alcohol, and up to           *)
(* MaxQuestions questions, each in a language, of a type and linked  *)
(* to up to MaxTags of the tags.  Every one is a storage that AddQuestion  *)
(* calls and the seed of init.sql can leave.                               *)
(***************************************************************************)
StoredLanguages == {en, de}
StoredTypes == {truth, dare}
StoredNames == {adult, alcohol}
StoredTags == {[id |-> 1, name |-> adult], [id |-> 2, name |-> alcohol]}
TaskOf == <<"Q1", "Q2", "Q3", "Q4", "Q5", "Q6">>

StoredRows ==
    [language : StoredLanguages, type : StoredTypes,
     linked : {ids \in SUBSET {t.id : t \in StoredTags} : Cardinality(ids) <= MaxTags}]

InitRead ==
    /\ \E n \in 0..MaxQuestions : \E rows \in [1..n -> StoredRows] :
        /\ questions = {[id |-> i, language |-> rows[i].language,
                         type |-> rows[i].type, task |-> TaskOf[i]] : i \in 1..n}
        /\ question_tags =
            UNION {{[question_id |-> i, tag_id |-> t] : t \in rows[i].linked} : i \in 1..n}
        /\ autoQuestion = n + 1
    /\ tags = StoredTags
    /\ autoTag = 3
    /\ tx = NoTx
    /\ other = NoTx
    /\ call = NoCall
    /\ startup = Started
    /\ page = PageLoaded

NextRead == Read(StoredNames \cup {ALCOHOL}) \/ Respond

SpecRead == InitRead /\ [][NextRead]_vars

(***************************************************************************)
(* Storage of scenario A: Q1 = (en, truth, {18+}), Q2 = (en, dare,         *)
(* {18+, alcohol}), as two AddQuestion calls leave it.                     *)
(***************************************************************************)
InitScenarioA ==
    /\ questions = {[id |-> 1, language |-> en, type |-> truth, task |-> "Q1"],
                    [id |-> 2, language |-> en, type |-> dare, task |-> "Q2"]}
    /\ tags = {[id |-> 1, name |-> adult], [id |-> 2, name |-> alcohol]}
    /\ question_tags = {[question_id |-> 1, tag_id |-> 1],
                        [question_id |-> 2, tag_id |-> 1],
                        [question_id |-> 2, tag_id |-> 2]}
    /\ autoQuestion = 3
    /\ autoTag = 3
    /\ tx = NoTx
    /\ other = NoTx
    /\ call = NoCall
    /\ startup = Started
    /\ page = PageLoaded

NextScenarioA == Read(TagNames) \/ Respond

SpecScenarioA == InitScenarioA /\ [][NextScenarioA]_vars

(***************************************************************************)
(* AddQuestion, lines 225-272, one step per storage call.  The rows a      *)
(* transaction wrote stay in tx until Commit puts them into the tables; a  *)
(* failing step rolls back, which drops them.  AUTO_INCREMENT counters are *)
(* not transactional: a rolled back insert keeps its number.  tx.log is    *)
(* the sequence of storage calls the call issued, each with its outcome,   *)
(* and tx.before the committed tables when the call began.                 *)
(***************************************************************************)
AddLanguages == {en, de}
AddTypes == {truth, dare}
Tasks == {"Q1", "Q2"}
AddTagNames == {adult, alcohol, ALCOHOL, adultAlcohol}
AddInputs ==
    [Language : AddLanguages, Type : AddTypes, Task : Tasks,
     Tags : SeqsUpTo(AddTagNames, MaxTags)]

Running == tx.pc \notin {"idle", "returned"}

NoSnapshot == [taken |-> FALSE, tags |-> {}]

IsNumeral(s) == Len(s) > 0 /\ \A i \in DOMAIN s : IsDigit(s[i])

\* the index of the member of ENUM('truth', 'dare') that an inserted string
\* is stored as: the member equal to it under the collation, else the member
\* whose index the string spells, else 0 (no member: the insert is refused)
EnumInsertIndex(value) ==
    IF EnumIndex(value) # 0 THEN EnumIndex(value)
    ELSE IF IsNumeral(value) /\ ToNumber(value) \in 1..2 THEN ToNumber(value)
    ELSE 0

\* the values of ENUM('truth', 'dare') as stored
EnumValue(value) == IF EnumInsertIndex(value) = 1 THEN truth ELSE dare

\* the storage calls behind each error AddQuestion returns after a rollback
FailedCalls(message) ==
    CASE message = "failed to insert question" ->
            <<Entry("INSERT questions", "error")>>
      [] message = "failed to get last insert ID" ->
            <<Entry("INSERT questions", "ok"), Entry("LastInsertId", "error")>>
      [] message = "failed to query tag" ->
            <<Entry("SELECT tags", "error")>>
      [] message = "failed to insert tag" ->
            <<Entry("INSERT tags", "error")>>
      [] message = "failed to get tag ID" ->
            <<Entry("INSERT tags", "ok"), Entry("LastInsertId", "error")>>
      [] message = "failed to insert question tag" ->
            <<Entry("INSERT question_tags", "error")>>

\* an error return that leaves the transaction open
RolledBackLeaking(message) ==
    [tx EXCEPT !.pc = "returned", !.err = message, !.log = @ \o FailedCalls(message)]

\* tx.Rollback() and the error return that follows it; the error of
\* Rollback itself is dropped by the code, and storage discards the
\* transaction of a connection it lost
RolledBack(message) ==
    [tx EXCEPT !.pc = "returned", !.ended = "rollback", !.err = message,
               !.log = @ \o FailedCalls(message) \o <<Entry("ROLLBACK", "ok")>>]

\* line 226: db.Begin()
Begin(q) ==
    /\ ~Running /\ call = NoCall
    /\ autoQuestion <= MaxQuestions
    /\ tx' = [pc |-> "insertQuestion", q |-> q, questionID |-> 0, i |-> 1, tagID |-> 0,
              newQuestions |-> {}, newTags |-> {}, newLinks |-> {},
              snapshot |-> NoSnapshot, ended |-> "open", err |-> "nil",
              log |-> <<Entry("BEGIN", "ok")>>,
              before |-> [questions |-> questions, tags |-> tags,
                          question_tags |-> question_tags]]
    /\ UNCHANGED <<questions, tags, question_tags, autoQuestion, autoTag, other, call,
                   startup, page>>

\* lines 231-242: INSERT INTO questions and LastInsertId; the server refuses
\* a type that is no value of the ENUM
InsertQuestion ==
    /\ tx.pc = "insertQuestion"
    /\ IF EnumInsertIndex(tx.q.Type) = 0
       THEN /\ tx' = RolledBack("failed to insert question")
            /\ UNCHANGED autoQuestion
       ELSE /\ tx' = [tx EXCEPT
                        !.pc = IF Len(tx.q.Tags) = 0 THEN "commit" ELSE "selectTag",
                        !.questionID = autoQuestion,
                        !.newQuestions =
                            {[id |-> autoQuestion, language |-> tx.q.Language,
                              type |-> EnumValue(tx.q.Type), task |-> tx.q.Task]},
                        !.log = @ \o <<Entry("INSERT questions", "ok"),
                                       Entry("LastInsertId", "ok")>>]
            /\ autoQuestion' = autoQuestion + 1
    /\ UNCHANGED <<questions, tags, question_tags, autoTag, other, call,
                   startup, page>>

\* the tags a SELECT of this transaction sees: the committed ones as of its
\* first SELECT (REPEATABLE READ) and the ones it inserted itself
Visible == (IF tx.snapshot.taken THEN tx.snapshot.tags ELSE tags) \cup tx.newTags

\* line 246: SELECT id FROM tags WHERE name = ?
SelectTag ==
    /\ tx.pc = "selectTag"
    /\ LET found == {t \in Visible : CollEq(t.name, tx.q.Tags[tx.i])}
           seen == IF tx.snapshot.taken THEN tx.snapshot
                   ELSE [taken |-> TRUE, tags |-> tags]
       IN  IF found = {}
           THEN tx' = [tx EXCEPT !.pc = "insertTag", !.snapshot = seen,
                                 !.log = Append(@, Entry("SELECT tags", "no rows"))]
           ELSE tx' = [tx EXCEPT !.pc = "insertQuestionTag", !.snapshot = seen,
                                 !.tagID = (CHOOSE t \in found : TRUE).id,
                                 !.log = Append(@, Entry("SELECT tags", "ok"))]
    /\ UNCHANGED <<questions, tags, question_tags, autoQuestion, autoTag, other, call,
                   startup, page>>

\* the second client's transaction holds an uncommitted tag of that name:
\* the unique index makes an insert of the name wait for its end
HeldByOther(name) ==
    /\ other.pc \notin {"idle", "returned"}
    /\ \E t \in other.newTags : CollEq(t.name, name)

\* the unique index on tags.name checked only against the rows this
\* transaction sees
InsertTagUnchecked ==
    /\ tx.pc = "insertTag"
    /\ tx' = [tx EXCEPT !.pc = "insertQuestionTag", !.tagID = autoTag,
                        !.newTags = @ \cup {[id |-> autoTag, name |-> tx.q.Tags[tx.i]]},
                        !.log = @ \o <<Entry("INSERT tags", "ok"),
                                       Entry("LastInsertId", "ok")>>]
    /\ autoTag' = autoTag + 1
    /\ UNCHANGED <<questions, tags, question_tags, autoQuestion, other, call,
                   startup, page>>

\* lines 248-257: INSERT INTO tags and LastInsertId; the unique index on
\* tags.name refuses a name that a committed row holds, and the refused
\* insert has used up its AUTO_INCREMENT number
InsertTag ==
    /\ tx.pc = "insertTag"
    /\ ~HeldByOther(tx.q.Tags[tx.i])
    /\ IF \E t \in tags : CollEq(t.name, tx.q.Tags[tx.i])
       THEN tx' = RolledBack("failed to insert tag")
       ELSE tx' = [tx EXCEPT
                    !.pc = "insertQuestionTag", !.tagID = autoTag,
                    !.newTags = @ \cup {[id |-> autoTag, name |-> tx.q.Tags[tx.i]]},
                    !.log = @ \o <<Entry("INSERT tags", "ok"),
                                   Entry("LastInsertId", "ok")>>]
    /\ autoTag' = autoTag + 1
    /\ UNCHANGED <<questions, tags, question_tags, autoQuestion, other, call,
                   startup, page>>

\* only the first tag of the list is linked
InsertQuestionTagFirstOnly ==
    /\ tx.pc = "insertQuestionTag"
    /\ LET link == [question_id |-> tx.questionID, tag_id |-> tx.tagID]
       IN  tx' = [tx EXCEPT
                    !.pc = IF tx.i = Len(tx.q.Tags) THEN "commit" ELSE "selectTag",
                    !.i = @ + 1,
                    !.newLinks = IF tx.i = 1 THEN {link} ELSE @,
                    !.log = Append(@, Entry("INSERT question_tags", "ok"))]
    /\ UNCHANGED <<questions, tags, question_tags, autoQuestion, autoTag, other, call,
                   startup, page>>

\* lines 263-268: INSERT INTO question_tags; the primary key (question_id,
\* tag_id) refuses a pair a second time
InsertQuestionTag ==
    /\ tx.pc = "insertQuestionTag"
    /\ LET link == [question_id |-> tx.questionID, tag_id |-> tx.tagID]
       IN  IF link \in question_tags \cup tx.newLinks
           THEN tx' = RolledBack("failed to insert question tag")
           ELSE tx' = [tx EXCEPT
                        !.pc = IF tx.i = Len(tx.q.Tags) THEN "commit" ELSE "selectTag",
                        !.i = @ + 1,
                        !.newLinks = @ \cup {link},
                        !.log = Append(@, Entry("INSERT question_tags", "ok"))]
    /\ UNCHANGED <<questions, tags, question_tags, autoQuestion, autoTag, other, call,
                   startup, page>>

\* the rows of a transaction put into the tables
CommitReplacing ==
    /\ tx.pc = "commit"
    /\ questions' = tx.newQuestions
    /\ tags' = tags \cup tx.newTags
    /\ question_tags' = question_tags \cup tx.newLinks
    /\ tx' = [tx EXCEPT !.pc = "returned", !.ended = "commit",
                        !.log = Append(@, Entry("COMMIT", "ok"))]
    /\ UNCHANGED <<autoQuestion, autoTag, other, call, startup, page>>

\* line 271: tx.Commit()
Commit ==
    /\ tx.pc = "commit"
    /\ questions' = questions \cup tx.newQuestions
    /\ tags' = tags \cup tx.newTags
    /\ question_tags' = question_tags \cup tx.newLinks
    /\ tx' = [tx EXCEPT !.pc = "returned", !.ended = "commit",
                        !.log = Append(@, Entry("COMMIT", "ok"))]
    /\ UNCHANGED <<autoQuestion, autoTag, other, call, startup, page>>

AddQuestion ==
    \/ \E q \in AddInputs : Begin(q)
    \/ InsertQuestion
    \/ SelectTag
    \/ InsertTag
    \/ InsertQuestionTag
    \/ Commit

\* the round trip: after AddQuestion returned nil, GetQuestions with the
\* language, type and tags that were added
ReadBack ==
    /\ tx.pc = "returned" /\ tx.err = "nil"
    /\ \E config \in Configs :
        GetQuestions(tx.q.Language, tx.q.Type, tx.q.Tags, config)

\* the schema of init.sql, no row stored
Init ==
    /\ questions = {}
    /\ tags = {}
    /\ question_tags = {}
    /\ autoQuestion = 1
    /\ autoTag = 1
    /\ tx = NoTx
    /\ other = NoTx
    /\ call = NoCall
    /\ startup = Started
    /\ page = PageLoaded

Next == AddQuestion \/ ReadBack \/ Respond

Spec == Init /\ [][Next]_vars

(***************************************************************************)
(* GetTags, lines 182-200: the names of all tags, in the order storage     *)
(* delivers them.                                                          *)
(***************************************************************************)
GetTags ==
    /\ call = NoCall
    /\ \E order \in Perms({t.name : t \in tags}) :
        call' = [op |-> "GetTags", names |-> order, err |-> "nil",
                 log |-> ReadLog(Len(order), Entry("Next", "end"))]
    /\ UNCHANGED <<questions, tags, question_tags, autoQuestion, autoTag, tx, other,
                   startup, page>>

(***************************************************************************)
(* Storage that can fail.  Every storage call of AddQuestion may return an *)
(* error: the call then takes the error branch of the code.  A statement   *)
(* that failed wrote nothing, except that an INSERT may have used up its   *)
(* AUTO_INCREMENT number.  A COMMIT that reports an error has either not   *)
(* been applied or, when only its answer was lost, has been applied.       *)
(***************************************************************************)
TRUTH == <<"T", "R", "U", "T", "H">>
maybe == <<"m", "a", "y", "b", "e">>

FaultTypes == {truth, TRUTH, one, maybe}
FaultTagNames == {adult, alcohol, ALCOHOL}

\* the calls of this storage: each with a task text of its own
FaultInputs ==
    [Language : {en}, Type : FaultTypes, Task : {TaskOf[autoQuestion]},
     Tags : SeqsUpTo(FaultTagNames, MaxTags)]

\* lines 226-229: db.Begin() fails, no transaction is opened
BeginFails(q) ==
    /\ ~Running /\ call = NoCall
    /\ autoQuestion <= MaxQuestions
    /\ tx' = [pc |-> "returned", q |-> q, questionID |-> 0, i |-> 1, tagID |-> 0,
              newQuestions |-> {}, newTags |-> {}, newLinks |-> {},
              snapshot |-> NoSnapshot, ended |-> "none",
              err |-> "failed to begin transaction",
              log |-> <<Entry("BEGIN", "error")>>,
              before |-> [questions |-> questions, tags |-> tags,
                          question_tags |-> question_tags]]
    /\ UNCHANGED <<questions, tags, question_tags, autoQuestion, autoTag, other, call,
                   startup, page>>

\* lines 231-236: the INSERT INTO questions fails
InsertQuestionFails ==
    /\ tx.pc = "insertQuestion"
    /\ tx' = RolledBack("failed to insert question")
    /\ autoQuestion' \in {autoQuestion, autoQuestion + 1}
    /\ UNCHANGED <<questions, tags, question_tags, autoTag, other, call,
                   startup, page>>

\* lines 238-242: the row is inserted, LastInsertId fails
LastInsertIdFails ==
    /\ tx.pc = "insertQuestion"
    /\ EnumInsertIndex(tx.q.Type) # 0
    /\ tx' = [RolledBack("failed to get last insert ID") EXCEPT
                !.newQuestions =
                    {[id |-> autoQuestion, language |-> tx.q.Language,
                      type |-> EnumValue(tx.q.Type), task |-> tx.q.Task]}]
    /\ autoQuestion' = autoQuestion + 1
    /\ UNCHANGED <<questions, tags, question_tags, autoTag, other, call,
                   startup, page>>

\* lines 258-261: the SELECT of the tag fails
SelectTagFails ==
    /\ tx.pc = "selectTag"
    /\ tx' = RolledBack("failed to query tag")
    /\ UNCHANGED <<questions, tags, question_tags, autoQuestion, autoTag, other, call,
                   startup, page>>

\* lines 248-252: the INSERT INTO tags fails (a lock wait that timed out or
\* was chosen to break a deadlock included)
InsertTagFails ==
    /\ tx.pc = "insertTag"
    /\ tx' = RolledBack("failed to insert tag")
    /\ autoTag' \in {autoTag, autoTag + 1}
    /\ UNCHANGED <<questions, tags, question_tags, autoQuestion, other, call,
                   startup, page>>

\* lines 253-257: the tag is inserted, LastInsertId fails
TagIDFails ==
    /\ tx.pc = "insertTag"
    /\ ~HeldByOther(tx.q.Tags[tx.i])
    /\ ~\E t \in tags : CollEq(t.name, tx.q.Tags[tx.i])
    /\ tx' = [RolledBack("failed to get tag ID") EXCEPT
                !.newTags = @ \cup {[id |-> autoTag, name |-> tx.q.Tags[tx.i]]}]
    /\ autoTag' = autoTag + 1
    /\ UNCHANGED <<questions, tags, question_tags, autoQuestion, other, call,
                   startup, page>>

\* the failed step is issued again instead of ending the call
InsertQuestionTagRetried ==
    /\ tx.pc = "insertQuestionTag"
    /\ tx.log[Len(tx.log)] # Entry("INSERT question_tags", "error")
    /\ tx' = [tx EXCEPT !.log = Append(@, Entry("INSERT question_tags", "error"))]
    /\ UNCHANGED <<questions, tags, question_tags, autoQuestion, autoTag, other, call,
                   startup, page>>

\* the statements run without a transaction: what was written stays
InsertQuestionTagFailsAutocommit ==
    /\ tx.pc = "insertQuestionTag"
    /\ questions' = questions \cup tx.newQuestions
    /\ tags' = tags \cup tx.newTags
    /\ question_tags' = question_tags \cup tx.newLinks
    /\ tx' = RolledBack("failed to insert question tag")
    /\ UNCHANGED <<autoQuestion, autoTag, other, call, startup, page>>

\* lines 263-268: the INSERT INTO question_tags fails
InsertQuestionTagFails ==
    /\ tx.pc = "insertQuestionTag"
    /\ tx' = RolledBack("failed to insert question tag")
    /\ UNCHANGED <<questions, tags, question_tags, autoQuestion, autoTag, other, call,
                   startup, page>>

\* line 271: tx.Commit() returns an error, which AddQuestion returns as it is
CommitFails ==
    /\ tx.pc = "commit"
    /\ tx' = [tx EXCEPT !.pc = "returned", !.ended = "commit", !.err = "commit failed",
                        !.log = Append(@, Entry("COMMIT", "error"))]
    /\ \/ UNCHANGED <<questions, tags, question_tags>>
       \/ /\ questions' = questions \cup tx.newQuestions
          /\ tags' = tags \cup tx.newTags
          /\ question_tags' = question_tags \cup tx.newLinks
    /\ UNCHANGED <<autoQuestion, autoTag, other, call, startup, page>>

AddQuestionFails ==
    \/ \E q \in FaultInputs : BeginFails(q)
    \/ InsertQuestionFails
    \/ LastInsertIdFails
    \/ SelectTagFails
    \/ InsertTagFails
    \/ TagIDFails
    \/ InsertQuestionTagFails
    \/ CommitFails

\* lines 159-174: rows.Next() ends the loop when storage fails after k rows,
\* and rows.Err() is not looked at
GetQuestionsInterrupted(language, qType, tagList, config) ==
    LET b == BuildQuery(language, qType, tagList, config)
        request == [op |-> "GetQuestions", language |-> language, qType |-> qType,
                    tags |-> tagList, config |-> config,
                    query |-> b.text, args |-> b.args]
    IN  /\ call = NoCall
        /\ ~QueryFails(b.text, b.args)
        /\ \E rows \in QueryRows(b.text, b.args, questions, tags, question_tags) :
            \E k \in 0..(Len(rows) - 1) :
                call' = request @@ [questions |-> MapRows(SubSeq(rows, 1, k)),
                                    err |-> "nil",
                                    log |-> ReadLog(k, Entry("Next", "error"))]
        /\ UNCHANGED <<questions, tags, question_tags, autoQuestion, autoTag, tx, other,
                       startup, page>>

\* lines 152-155: db.Query fails
GetQuestionsFails(language, qType, tagList, config) ==
    LET b == BuildQuery(language, qType, tagList, config)
    IN  /\ call = NoCall
        /\ call' = [op |-> "GetQuestions", language |-> language, qType |-> qType,
                    tags |-> tagList, config |-> config,
                    query |-> b.text, args |-> b.args,
                    questions |-> <<>>, err |-> "failed to fetch questions",
                    log |-> <<Entry("Query", "error")>>]
        /\ UNCHANGED <<questions, tags, question_tags, autoQuestion, autoTag, tx, other,
                       startup, page>>

\* a listing after an AddQuestion call returned: everything, or the questions
\* with the tags of the call
ReadAfter ==
    /\ tx.pc = "returned"
    /\ \E tagList \in {<<>>, tx.q.Tags} :
        \/ GetQuestions(Empty, Empty, tagList, Config(FALSE))
        \/ GetQuestionsInterrupted(Empty, Empty, tagList, Config(FALSE))
        \/ GetQuestionsFails(Empty, Empty, tagList, Config(FALSE))

NextFaults ==
    \/ \E q \in FaultInputs : Begin(q)
    \/ InsertQuestion
    \/ SelectTag
    \/ InsertTag
    \/ InsertQuestionTag
    \/ Commit
    \/ AddQuestionFails
    \/ ReadAfter
    \/ (tx.pc = "returned" /\ GetTags)
    \/ Respond

SpecFaults == Init /\ [][NextFaults]_vars

(***************************************************************************)
(* Listings on a storage that can fail: db.Query may return an error, the  *)
(* connection may be lost while the rows are read, and a row may hold a    *)
(* value that Scan cannot put into the Go variable.                        *)
(***************************************************************************)
\* the rows decoded before the failing one are returned with the error
GetQuestionsScanFailsPartial(language, qType, tagList, config) ==
    LET b == BuildQuery(language, qType, tagList, config)
        request == [op |-> "GetQuestions", language |-> language, qType |-> qType,
                    tags |-> tagList, config |-> config,
                    query |-> b.text, args |-> b.args]
    IN  /\ call = NoCall
        /\ ~QueryFails(b.text, b.args)
        /\ \E rows \in QueryRows(b.text, b.args, questions, tags, question_tags) :
            \E k \in 0..(Len(rows) - 1) :
                call' = request @@ [questions |-> MapRows(SubSeq(rows, 1, k)),
                                    err |-> "failed to parse question",
                                    log |-> ReadLog(k, Entry("Scan", "error"))]
        /\ UNCHANGED <<questions, tags, question_tags, autoQuestion, autoTag, tx, other,
                       startup, page>>

\* lines 162-165: rows.Scan fails on the row after the first k
GetQuestionsScanFails(language, qType, tagList, config) ==
    LET b == BuildQuery(language, qType, tagList, config)
        request == [op |-> "GetQuestions", language |-> language, qType |-> qType,
                    tags |-> tagList, config |-> config,
                    query |-> b.text, args |-> b.args]
    IN  /\ call = NoCall
        /\ ~QueryFails(b.text, b.args)
        /\ \E rows \in QueryRows(b.text, b.args, questions, tags, question_tags) :
            \E k \in 0..(Len(rows) - 1) :
                call' = request @@ [questions |-> <<>>,
                                    err |-> "failed to parse question",
                                    log |-> ReadLog(k, Entry("Scan", "error"))]
        /\ UNCHANGED <<questions, tags, question_tags, autoQuestion, autoTag, tx, other,
                       startup, page>>

\* lines 183-186: db.Query fails
GetTagsFails ==
    /\ call = NoCall
    /\ call' = [op |-> "GetTags", names |-> <<>>, err |-> "failed to fetch tags",
                log |-> <<Entry("Query", "error")>>]
    /\ UNCHANGED <<questions, tags, question_tags, autoQuestion, autoTag, tx, other,
                   startup, page>>

\* lines 192-195: rows.Scan fails on the row after the first k
GetTagsScanFails ==
    /\ call = NoCall
    /\ \E order \in Perms({t.name : t \in tags}) : \E k \in 0..(Len(order) - 1) :
        call' = [op |-> "GetTags", names |-> <<>>, err |-> "failed to parse tag",
                 log |-> ReadLog(k, Entry("Scan", "error"))]
    /\ UNCHANGED <<questions, tags, question_tags, autoQuestion, autoTag, tx, other,
                   startup, page>>

\* lines 190-199: rows.Next() ends the loop when storage fails after k rows,
\* and rows.Err() is not looked at
GetTagsInterrupted ==
    /\ call = NoCall
    /\ \E order \in Perms({t.name : t \in tags}) : \E k \in 0..(Len(order) - 1) :
        call' = [op |-> "GetTags", names |-> SubSeq(order, 1, k), err |-> "nil",
                 log |-> ReadLog(k, Entry("Next", "error"))]
    /\ UNCHANGED <<questions, tags, question_tags, autoQuestion, autoTag, tx, other,
                   startup, page>>

\* the handler getQuestions (src/main.go), which always passes a config
ReadFaulty ==
    \E language \in {Empty, en}, tagList \in SeqsUpTo(StoredNames, MaxTags),
       config \in {Config(FALSE), Config(TRUE)} :
        \/ GetQuestions(language, Empty, tagList, config)
        \/ GetQuestionsFails(language, Empty, tagList, config)
        \/ GetQuestionsScanFails(language, Empty, tagList, config)
        \/ GetQuestionsInterrupted(language, Empty, tagList, config)

\* the handler getTags (src/main.go)
ListTags ==
    \/ GetTags
    \/ GetTagsFails
    \/ GetTagsScanFails
    \/ GetTagsInterrupted

NextReadFaults == ReadFaulty \/ ListTags \/ Respond

SpecReadFaults == InitRead /\ [][NextReadFaults]_vars

(***************************************************************************)
(* Two clients.  Each AddQuestion call runs on a connection of its own;    *)
(* tx is the call of the client whose step comes next and other the call   *)
(* of the client that waits, and Switch passes the turn.  Storage keeps    *)
(* the transactions apart: a SELECT sees the rows committed when the       *)
(* transaction first read and its own, an INSERT INTO tags waits for the   *)
(* end of a transaction that inserted the name, and is refused when the    *)
(* name is committed.                                                      *)
(***************************************************************************)
ConcurrentInputs ==
    [Language : {en}, Type : {truth}, Task : {TaskOf[autoQuestion]},
     Tags : SeqsUpTo(StoredNames, MaxTags)]

\* the turn passes to the other client
Switch ==
    /\ call = NoCall
    /\ tx.pc # "idle" \/ other.pc # "idle"
    /\ tx' = other
    /\ other' = tx
    /\ UNCHANGED <<questions, tags, question_tags, autoQuestion, autoTag, call,
                   startup, page>>

NextConcurrent ==
    \/ \E q \in ConcurrentInputs : Begin(q)
    \/ InsertQuestion
    \/ SelectTag
    \/ InsertTag
    \/ InsertQuestionTag
    \/ Commit
    \/ InsertTagFails
    \/ InsertQuestionTagFails
    \/ CommitFails
    \/ Switch

SpecConcurrent == Init /\ [][NextConcurrent]_vars

\* lines 248-252 while the insert waits for the other client's transaction,
\* which holds an uncommitted tag of that name: storage ends the wait with
\* an error (lock wait timeout, or this transaction chosen to break a deadlock)
InsertTagWaitFails ==
    /\ tx.pc = "insertTag"
    /\ HeldByOther(tx.q.Tags[tx.i])
    /\ tx' = RolledBack("failed to insert tag")
    /\ autoTag' \in {autoTag, autoTag + 1}
    /\ UNCHANGED <<questions, tags, question_tags, autoQuestion, other, call,
                   startup, page>>

\* two clients on a storage that does not fail: a statement is refused only
\* by a constraint of the schema or to end a lock wait
NextRace ==
    \/ \E q \in ConcurrentInputs : Begin(q)
    \/ InsertQuestion
    \/ SelectTag
    \/ InsertTag
    \/ InsertTagWaitFails
    \/ InsertQuestionTag
    \/ Commit
    \/ Switch

SpecRace == Init /\ [][NextRace]_vars

(***************************************************************************)
(* NewDatabase, lines 52-68, one step per attempt, and the server that     *)
(* main starts when NewDatabase returned a Database (src/main.go lines     *)
(* 126-153); with an error initializeDatabase ends the process.            *)
(***************************************************************************)
Frame == <<questions, tags, question_tags, autoQuestion, autoTag, tx, other, call>>

\* lines 53, 60-61: sql.Open fails; the attempt is logged and the loop sleeps
OpenFails ==
    /\ startup.pc = "loop" /\ startup.i < MaxAttempts
    /\ startup.dsn = "malformed"
    /\ startup' = [startup EXCEPT !.db = "nil", !.err = "open failed", !.i = @ + 1,
                                  !.attempts = Append(@, "open failed")]
    /\ UNCHANGED <<Frame, page>>

\* lines 53-61: sql.Open succeeds and db.Ping fails; logged, the loop sleeps
PingFails ==
    /\ startup.pc = "loop" /\ startup.i < MaxAttempts
    /\ startup.dsn = "valid"
    /\ startup' = [startup EXCEPT !.db = "open", !.err = "ping failed", !.i = @ + 1,
                                  !.attempts = Append(@, "ping failed")]
    /\ UNCHANGED <<Frame, page>>

\* the loop goes on after an attempt that connected
ConnectsWithoutBreak ==
    /\ startup.pc = "loop" /\ startup.i < MaxAttempts
    /\ startup.dsn = "valid"
    /\ startup' = [startup EXCEPT !.db = "open", !.err = "nil", !.i = @ + 1,
                                  !.attempts = Append(@, "connected")]
    /\ UNCHANGED <<Frame, page>>

\* lines 53-58: sql.Open and db.Ping succeed, break
Connects ==
    /\ startup.pc = "loop" /\ startup.i < MaxAttempts
    /\ startup.dsn = "valid"
    /\ startup' = [startup EXCEPT !.db = "open", !.err = "nil", !.pc = "after",
                                  !.attempts = Append(@, "connected")]
    /\ UNCHANGED <<Frame, page>>

\* lines 52, 64-68: the loop is left, by break or with i = 10, and
\* NewDatabase returns (nil, error) if err is set and the Database if not
Returns ==
    /\ startup.pc = "after" \/ (startup.pc = "loop" /\ startup.i >= MaxAttempts)
    /\ startup' = [startup EXCEPT
                    !.pc = "returned",
                    !.returned = IF startup.err # "nil" THEN "error" ELSE "Database"]
    /\ UNCHANGED <<Frame, page>>

NewDatabase == OpenFails \/ PingFails \/ Connects \/ Returns

\* main, lines 127-152: the handlers are registered once the database is
\* connected
Serve ==
    /\ startup.returned = "Database"
    /\ Read(StoredNames) \/ Respond

\* the seed of scenario A; the environment names a data source or does not
InitStartup ==
    /\ questions = {[id |-> 1, language |-> en, type |-> truth, task |-> "Q1"],
                    [id |-> 2, language |-> en, type |-> dare, task |-> "Q2"]}
    /\ tags = {[id |-> 1, name |-> adult], [id |-> 2, name |-> alcohol]}
    /\ question_tags = {[question_id |-> 1, tag_id |-> 1],
                        [question_id |-> 2, tag_id |-> 1],
                        [question_id |-> 2, tag_id |-> 2]}
    /\ autoQuestion = 3
    /\ autoTag = 3
    /\ tx = NoTx
    /\ other = NoTx
    /\ call = NoCall
    /\ startup \in {NotStarted("valid"), NotStarted("malformed")}
    /\ page = PageLoaded

NextStartup == NewDatabase \/ Serve

\* NewDatabase runs on the only goroutine of main, and each of its calls
\* (sql.Open, db.Ping, time.Sleep) returns
SpecStartup == InitStartup /\ [][NextStartup]_vars /\ WF_vars(NewDatabase)

(***************************************************************************)
(* The handlers of the game page.  A handler runs when its control is      *)
(* clicked, and a control can be clicked while the section it is in is     *)
(* displayed: the name input, the player chips and the start button are in *)
(* playerSetup (lines 208-216), the Truth, Dare and End Game buttons in    *)
(* gameArea (lines 218-232).  A player is kept as its name.                *)
(***************************************************************************)
RECURSIVE trimStart(_)
trimStart(s) == IF s # <<>> /\ Head(s) = " " THEN trimStart(Tail(s)) ELSE s

RECURSIVE trimEnd(_)
trimEnd(s) ==
    IF s # <<>> /\ s[Len(s)] = " " THEN trimEnd(SubSeq(s, 1, Len(s) - 1)) ELSE s

\* String.prototype.trim, line 274
trim(s) == trimEnd(trimStart(s))

\* String.prototype.toLowerCase, line 276
toLowerCase(s) == [i \in DOMAIN s |-> Lower(s[i])]

\* what is typed into playerNameInput
NameInputs == {Empty, <<" ">>, <<"A">>, <<"a">>, <<" ", "A", " ">>, <<"B">>, <<"C">>}

\* lines 284 and 299: the start button shows with two players or more
startGameBtnDisplay(list) == IF Len(list) >= 2 THEN "inline-block" ELSE "none"

\* players.splice(index, 1), with index counted from 0
splice(list, index) == SubSeq(list, 1, index) \o SubSeq(list, index + 2, Len(list))

\* players[index], with index counted from 0
PlayerAt(p, index) == p.players[index + 1]

\* lines 273-285
addPlayer(value) ==
    /\ page.playerSetup = "block"
    /\ Len(page.players) < MaxPlayers
    /\ LET playerName == trim(value)
           unique == /\ playerName # Empty
                     /\ ~\E k \in DOMAIN page.players :
                            toLowerCase(page.players[k]) = toLowerCase(playerName)
           list == IF unique THEN Append(page.players, playerName) ELSE page.players
       IN  page' = [page EXCEPT
                        !.players = list,
                        !.alert = IF unique THEN "" ELSE "Please enter a unique player name",
                        !.startGameBtn = startGameBtnDisplay(list)]
    /\ UNCHANGED <<Frame, startup>>

\* the player chips can be clicked while the game is on
removePlayerDuringGame(index) ==
    /\ index < Len(page.players)
    /\ page' = [page EXCEPT
                    !.players = splice(page.players, index),
                    !.alert = "",
                    !.startGameBtn = startGameBtnDisplay(splice(page.players, index))]
    /\ UNCHANGED <<Frame, startup>>

\* lines 296-300, called by the chip of the player at index (line 291)
removePlayer(index) ==
    /\ page.playerSetup = "block"
    /\ index < Len(page.players)
    /\ page' = [page EXCEPT
                    !.players = splice(page.players, index),
                    !.alert = "",
                    !.startGameBtn = startGameBtnDisplay(splice(page.players, index))]
    /\ UNCHANGED <<Frame, startup>>

\* lines 318-325
updateCurrentPlayer(p) ==
    [p EXCEPT !.currentPlayerInfo = PlayerAt(p, p.currentPlayerIndex),
              !.nextPlayerInfo = PlayerAt(p, (p.currentPlayerIndex + 1) % Len(p.players))]

\* the turn stays with the player
nextPlayerStaying(p) == updateCurrentPlayer(p)

\* lines 369-372
nextPlayer(p) ==
    updateCurrentPlayer(
        [p EXCEPT !.currentPlayerIndex = (p.currentPlayerIndex + 1) % Len(p.players)])

\* lines 302-316
startGame ==
    /\ page.playerSetup = "block" /\ page.startGameBtn = "inline-block"
    /\ IF Len(page.players) < 2
       THEN page' = [page EXCEPT !.alert = "Please add at least 2 players"]
       ELSE page' = updateCurrentPlayer(
                        [page EXCEPT !.currentPlayerIndex = 0,
                                     !.usedTruths = <<>>, !.usedDares = <<>>,
                                     !.playerSetup = "none", !.gameArea = "block",
                                     !.tasksFor = <<>>, !.alert = ""])
    /\ UNCHANGED <<Frame, startup>>

\* the tasks of the pool that are not in used (lines 332 and 353)
Available(pool, used) == {t \in Range(pool) : t \notin Range(used)}

\* a truth is drawn from the whole pool
selectTruthFromPool ==
    /\ page.gameArea = "block"
    /\ Len(page.tasksFor) < MaxTurns
    /\ \E randomTruth \in Range(truths) :
        page' = nextPlayer(
            [page EXCEPT
                !.usedTruths = Append(@, randomTruth),
                !.taskText = [kind |-> "Truth", task |-> randomTruth],
                !.taskPlayerInfo = PlayerAt(page, page.currentPlayerIndex),
                !.tasksFor = Append(@, PlayerAt(page, page.currentPlayerIndex)),
                !.alert = ""])
    /\ UNCHANGED <<Frame, startup>>

\* lines 327-346
selectTruth ==
    /\ page.gameArea = "block"
    /\ Len(page.tasksFor) < MaxTurns
    /\ LET used == IF Len(page.usedTruths) = Len(truths) THEN <<>> ELSE page.usedTruths
           availableTruths == Available(truths, used)
       IN  IF availableTruths = {}
           THEN page' = [page EXCEPT !.usedTruths = used,
                                     !.alert = "No more unique truths available!"]
           ELSE \E randomTruth \in availableTruths :
                    page' = nextPlayer(
                        [page EXCEPT
                            !.usedTruths = Append(used, randomTruth),
                            !.taskText = [kind |-> "Truth", task |-> randomTruth],
                            !.taskPlayerInfo = PlayerAt(page, page.currentPlayerIndex),
                            !.tasksFor = Append(@, PlayerAt(page, page.currentPlayerIndex)),
                            !.alert = ""])
    /\ UNCHANGED <<Frame, startup>>

\* lines 348-367
selectDare ==
    /\ page.gameArea = "block"
    /\ Len(page.tasksFor) < MaxTurns
    /\ LET used == IF Len(page.usedDares) = Len(dares) THEN <<>> ELSE page.usedDares
           availableDares == Available(dares, used)
       IN  IF availableDares = {}
           THEN page' = [page EXCEPT !.usedDares = used,
                                     !.alert = "No more unique dares available!"]
           ELSE \E randomDare \in availableDares :
                    page' = nextPlayer(
                        [page EXCEPT
                            !.usedDares = Append(used, randomDare),
                            !.taskText = [kind |-> "Dare", task |-> randomDare],
                            !.taskPlayerInfo = PlayerAt(page, page.currentPlayerIndex),
                            !.tasksFor = Append(@, PlayerAt(page, page.currentPlayerIndex)),
                            !.alert = ""])
    /\ UNCHANGED <<Frame, startup>>

\* lines 374-385
resetGame ==
    /\ page.gameArea = "block"
    /\ page' = [page EXCEPT !.playerSetup = "block", !.gameArea = "none",
                            !.players = <<>>, !.startGameBtn = "none",
                            !.taskText = ChooseText, !.taskPlayerInfo = Empty,
                            !.tasksFor = <<>>, !.alert = ""]
    /\ UNCHANGED <<Frame, startup>>

\* the page is served next to a storage without rows
InitGame ==
    /\ questions = {}
    /\ tags = {}
    /\ question_tags = {}
    /\ autoQuestion = 1
    /\ autoTag = 1
    /\ tx = NoTx
    /\ other = NoTx
    /\ call = NoCall
    /\ startup = Started
    /\ page = PageLoaded

NextGame ==
    \/ \E value \in NameInputs : addPlayer(value)
    \/ \E index \in 0..(MaxPlayers - 1) : removePlayer(index)
    \/ startGame
    \/ selectTruth
    \/ selectDare
    \/ resetGame

SpecGame == InitGame /\ [][NextGame]_vars

(***************************************************************************)
(* Vocabulary of the properties.                                           *)
(***************************************************************************)
IsGet == call.op = "GetQuestions"
Succeeded == IsGet /\ call.err = "nil"
AllMode == IsGet /\ Len(call.tags) > 0 /\ ~call.config.nil /\ call.config.MatchAllTags
AnyMode == IsGet /\ Len(call.tags) > 0 /\ ~AllMode
ReturnedIDs == {call.questions[i].ID : i \in DOMAIN call.questions}

\* the names of the tags linked to question id in storage
LinkedNames(id) == {t.name : t \in TagsOf(id, tags, question_tags)}

\* question id is linked to the tag that storage resolves the name to
LinkedTo(id, name) == \E n \in LinkedNames(id) : CollEq(n, name)

SqlPieces ==
    {SelectFrom, JoinOpen, JoinHaving, JoinClose, Where, And, LanguageEq, TypeEq,
     NameIn, CloseParen, GroupBy} \cup Placeholders

\* C1: the query has as many placeholders as arguments and every placeholder,
\* read left to right, is bound to the value meant for it: q.language = ? to
\* the language, q.type = ? to the type, the placeholders of each
\* t.name IN (...) to the tag names in order, and HAVING COUNT(DISTINCT
\* t.name) = ? to the number of tags.
C1_PlaceholdersBindIntendedValues ==
    IsGet =>
        /\ NumPlaceholders(call.query) = Len(call.args)
        /\ \A i \in DOMAIN call.query :
            /\ call.query[i] = LanguageEq
                => Bound(call.query, call.args, i + 1) = StringArg(call.language)
            /\ call.query[i] = TypeEq
                => Bound(call.query, call.args, i + 1) = StringArg(call.qType)
            /\ call.query[i] \in {NameIn, JoinOpen}
                => BoundList(call.query, call.args, i + 1) = TagArgs(call.tags)
            /\ call.query[i] = JoinHaving
                => Bound(call.query, call.args, i + 1) = IntArg(Len(call.tags))

\* C2: scenario A. On the storage {Q1 = (en, truth, {18+}), Q2 = (en, dare,
\* {18+, alcohol})}, GetQuestions("en", "", ["18+", "alcohol"]) returns exactly
\* Q1 and Q2 with matchAll = false and exactly Q2 with matchAll = true.
C2_ScenarioA ==
    (IsGet /\ call.language = en /\ call.qType = Empty
        /\ call.tags = <<adult, alcohol>> /\ ~call.config.nil) =>
        /\ call.err = "nil"
        /\ ~call.config.MatchAllTags =>
            (Len(call.questions) = 2 /\ ReturnedIDs = {1, 2})
        /\ call.config.MatchAllTags =>
            (Len(call.questions) = 1 /\ ReturnedIDs = {2})

\* C3: in ALL mode with a non-empty tag list, every returned question is
\* linked to every requested tag.
C3_AllModeSound ==
    (AllMode /\ Succeeded) =>
        \A id \in ReturnedIDs : \A k \in DOMAIN call.tags : LinkedTo(id, call.tags[k])

\* C5: the tag list attached to every returned question is the full set of
\* the tags linked to it in storage, whatever the tag filter and the mode.
C5_FullTagList ==
    Succeeded =>
        \A i \in DOMAIN call.questions :
            Range(call.questions[i].Tags) = LinkedNames(call.questions[i].ID)

Shape(language, qType, tagList, config) ==
    <<language = Empty, qType = Empty, Len(tagList),
      Len(tagList) > 0 /\ ~config.nil /\ config.MatchAllTags>>

\* C9: the query text holds no caller-supplied value. Every piece of it is
\* SQL text of the source or a placeholder, and any other call that agrees
\* on whether language is empty, whether type is empty, the number of tags
\* and the match mode gets the identical text.
C9_TextIndependentOfValues ==
    IsGet =>
        /\ Range(call.query) \subseteq SqlPieces
        /\ \A language \in Languages, qType \in Types, tagList \in TagLists,
              config \in Configs :
                Shape(language, qType, tagList, config)
                    = Shape(call.language, call.qType, call.tags, call.config)
                => BuildQuery(language, qType, tagList, config).text = call.query

\* a call with a language, a type and tags was sent and answered
C9_Witness ==
    /\ Succeeded
    /\ call.language # Empty /\ call.qType # Empty /\ Len(call.tags) = MaxTags
    /\ Len(call.questions) > 0

\* the question passes the language and the type filter of the call, as
\* storage compares them
Passes(q) ==
    /\ call.language = Empty \/ CollEq(q.language, call.language)
    /\ call.qType = Empty \/ CollEq(q.type, call.qType)

PassingIDs == {q.id : q \in {x \in questions : Passes(x)}}

\* C4: in ANY mode with a non-empty tag list the call returns exactly the
\* questions that pass the language and type filters and are linked to at
\* least one requested tag.
C4_AnyModeExact ==
    AnyMode =>
        /\ call.err = "nil"
        /\ ReturnedIDs =
            {id \in PassingIDs : \E k \in DOMAIN call.tags : LinkedTo(id, call.tags[k])}

\* two tags are asked for; a question linked to one of them is returned and a
\* stored question linked to neither is not
C4_Witness ==
    /\ AnyMode /\ Succeeded /\ Len(call.tags) = 2
    /\ \E id \in ReturnedIDs : Cardinality(LinkedNames(id)) = 1
    /\ \E q \in questions : Passes(q) /\ q.id \notin ReturnedIDs

\* C6: the returned list holds no question identifier twice.
C6_NoDuplicateIDs ==
    IsGet =>
        \A i, j \in DOMAIN call.questions :
            i # j => call.questions[i].ID # call.questions[j].ID

\* a returned question is linked to two of the requested tags
C6_Witness ==
    /\ Succeeded /\ Len(call.tags) = 2
    /\ \E id \in ReturnedIDs :
        /\ LinkedTo(id, call.tags[1]) /\ LinkedTo(id, call.tags[2])
        /\ ~CollEq(call.tags[1], call.tags[2])

\* the tag lists the row mapping can attach to a question with nothing
\* filtered out: the names of all its tags, concatenated in some order and split
FullTagLists(id) ==
    IF LinkedNames(id) = {} THEN {<<>>}
    ELSE {Split(GroupConcat(order)) : order \in Perms(LinkedNames(id))}

\* C7: with an empty tag list the result is that of the listing without any
\* tag filter, whatever MatchAllTags is: every stored question passing the
\* language and type filters exactly once, the untagged ones included, each
\* with its stored fields and all its tags.
C7_EmptyTagListIsNoFilter ==
    (IsGet /\ call.tags = <<>>) =>
        /\ call.err = "nil"
        /\ ReturnedIDs = PassingIDs
        /\ Len(call.questions) = Cardinality(PassingIDs)
        /\ \A i \in DOMAIN call.questions :
            LET r == call.questions[i]
            IN  /\ [id |-> r.ID, language |-> r.Language, type |-> r.Type,
                    task |-> r.Task] \in questions
                /\ r.Tags \in FullTagLists(r.ID)

\* ALL mode with no tags returned a question that has no tag and one that has
C7_Witness ==
    /\ Succeeded /\ call.tags = <<>> /\ ~call.config.nil /\ call.config.MatchAllTags
    /\ \E id \in ReturnedIDs : LinkedNames(id) = {}
    /\ \E id \in ReturnedIDs : LinkedNames(id) # {}

\* C8 as stated: with no tag filter the call returns exactly the stored
\* questions whose language equals the given one (any when empty) and whose
\* type equals the given one (any when empty), without error.
C8_FilterByEquality ==
    (IsGet /\ call.tags = <<>>) =>
        /\ call.err = "nil"
        /\ ReturnedIDs =
            {q.id : q \in {x \in questions :
                /\ call.language = Empty \/ x.language = call.language
                /\ call.qType = Empty \/ x.type = call.qType}}

\* C8 amended: with no tag filter the call returns exactly the stored
\* questions whose language equals the given one under the collation of the
\* column (letter case ignored; any language when empty) and whose type
\* equals the given one likewise (any type when empty), without error; the
\* list is empty when no stored question matches.
C8_FilterByCollation ==
    (IsGet /\ call.tags = <<>>) =>
        /\ call.err = "nil"
        /\ ReturnedIDs = PassingIDs
        /\ PassingIDs = {} => call.questions = <<>>

\* scenario B: "de" asked of a storage holding only "en" questions
C8_Witness ==
    /\ Succeeded /\ call.tags = <<>> /\ call.language = de /\ call.qType = Empty
    /\ questions # {} /\ \A q \in questions : q.language = en
    /\ call.questions = <<>>

\* C10: round trip. After AddQuestion(lang, type, task, tags) returned nil,
\* GetQuestions(lang, type, tags, matchAll = true) returns a list holding a
\* question with that language, type and task whose tag list is a superset of
\* the tags supplied.
C10_RoundTrip ==
    (Succeeded /\ tx.pc = "returned" /\ tx.err = "nil"
        /\ ~call.config.nil /\ call.config.MatchAllTags) =>
        \E i \in DOMAIN call.questions :
            /\ call.questions[i].Language = tx.q.Language
            /\ call.questions[i].Type = tx.q.Type
            /\ call.questions[i].Task = tx.q.Task
            /\ Range(tx.q.Tags) \subseteq Range(call.questions[i].Tags)

(***************************************************************************)
(* Vocabulary of the properties of the write path.                         *)
(***************************************************************************)
Returned == tx.pc = "returned"
Failed == Returned /\ tx.err # "nil"
CommitFailed == Failed /\ tx.log[Len(tx.log)] = Entry("COMMIT", "error")

\* the committed tables
Tables == [questions |-> questions, tags |-> tags, question_tags |-> question_tags]

\* the tables of before the call with every row the call wrote
TablesWithCall ==
    [questions |-> tx.before.questions \cup tx.newQuestions,
     tags |-> tx.before.tags \cup tx.newTags,
     question_tags |-> tx.before.question_tags \cup tx.newLinks]

\* no question a read returned carries the task text of the call
TaskNotFound ==
    IsGet => \A i \in DOMAIN call.questions : call.questions[i].Task # tx.q.Task

LogOf(stmt) == {p \in DOMAIN tx.log : tx.log[p].stmt = stmt}

\* the positions at which the call ended its transaction
Ends == LogOf("COMMIT") \cup LogOf("ROLLBACK")

Opened == tx.pc # "idle" /\ tx.log[1] = Entry("BEGIN", "ok")

\* C12: a call that opened a transaction has not ended it while it runs and
\* has ended it exactly once, as its last storage call, when it has returned;
\* a commit is issued only after the question insert and, for every supplied
\* tag, its lookup and its association insert succeeded, with no failed call
\* before it; every association insert comes after the question insert and
\* directly after the successful lookup, or the creation, of its tag.
C12_TransactionEndsOnceInOrder ==
    Opened =>
        /\ Running => Ends = {}
        /\ Returned => (Ends = {Len(tx.log)} /\ tx.ended \in {"commit", "rollback"})
        /\ \A p \in LogOf("COMMIT") :
            /\ \A j \in 1..(p - 1) : tx.log[j].result # "error"
            /\ tx.log[2] = Entry("INSERT questions", "ok")
            /\ Cardinality(LogOf("INSERT questions")) = 1
            /\ Cardinality(LogOf("SELECT tags")) = Len(tx.q.Tags)
            /\ Cardinality(LogOf("INSERT question_tags")) = Len(tx.q.Tags)
        /\ \A p \in LogOf("INSERT question_tags") :
            /\ \E j \in LogOf("INSERT questions") : j < p /\ tx.log[j].result = "ok"
            /\ \/ tx.log[p - 1] = Entry("SELECT tags", "ok")
               \/ /\ tx.log[p - 1] = Entry("LastInsertId", "ok")
                  /\ tx.log[p - 2] = Entry("INSERT tags", "ok")
                  /\ tx.log[p - 3] = Entry("SELECT tags", "no rows")

\* a call with two tags, one found and one created, has committed
C12_Witness ==
    /\ Opened /\ Returned /\ tx.ended = "commit" /\ tx.err = "nil"
    /\ Len(tx.q.Tags) = 2
    /\ LogOf("INSERT tags") # {}
    /\ \E p \in DOMAIN tx.log : tx.log[p] = Entry("SELECT tags", "ok")

\* the error AddQuestion returns when the storage call at position p failed
MessageOf(p) ==
    LET stmt == tx.log[p].stmt
    IN  CASE stmt = "BEGIN" -> "failed to begin transaction"
          [] stmt = "INSERT questions" -> "failed to insert question"
          [] stmt = "LastInsertId" ->
                IF tx.log[p - 1].stmt = "INSERT questions"
                THEN "failed to get last insert ID" ELSE "failed to get tag ID"
          [] stmt = "SELECT tags" -> "failed to query tag"
          [] stmt = "INSERT tags" -> "failed to insert tag"
          [] stmt = "INSERT question_tags" -> "failed to insert question tag"
          [] stmt = "COMMIT" -> "commit failed"
          [] OTHER -> "nil"

\* C20: once a storage call of AddQuestion has failed the call has returned,
\* the only storage call after the failed one is the rollback (no lookup, no
\* insert, no commit, no second try of the step), and the error returned is
\* the one of that failed call.
C20_StopsAtFirstFailure ==
    tx.pc # "idle" =>
        \A p \in DOMAIN tx.log :
            tx.log[p].result = "error" =>
                /\ Returned
                /\ \A j \in (p + 1)..Len(tx.log) : tx.log[j].stmt = "ROLLBACK"
                /\ tx.err = MessageOf(p)

\* the lookup of the second tag failed after the first tag was linked
C20_Witness ==
    /\ Failed /\ tx.err = "failed to query tag"
    /\ tx.i = 2 /\ tx.newLinks # {}

\* the call returned nil
Added == Returned /\ tx.err = "nil"

\* the names of the call for which it created a tag row
CreatedNames == {t.name : t \in tx.newTags}

\* C13 as stated: a successful AddQuestion with tag names T has created a tag
\* row for exactly the names of T that no tag row held before, left the other
\* tag rows as they were, linked the new question to a tag of every name of
\* T, and a following GetTags includes every name of T.
C13_TagsCreatedByName ==
    Added =>
        /\ tags = tx.before.tags \cup tx.newTags
        /\ CreatedNames =
            {tx.q.Tags[k] : k \in {j \in DOMAIN tx.q.Tags :
                ~\E t \in tx.before.tags : t.name = tx.q.Tags[j]}}
        /\ \A k \in DOMAIN tx.q.Tags : \E t \in tags :
            /\ t.name = tx.q.Tags[k]
            /\ [question_id |-> tx.questionID, tag_id |-> t.id] \in question_tags
        /\ call.op = "GetTags" =>
            (call.err = "nil" /\ Range(tx.q.Tags) \subseteq Range(call.names))

\* C13 amended: names are compared as the column tags.name compares them
\* (letter case ignored). A successful AddQuestion with tag names T has
\* created one tag row for exactly the names of T that equalled no stored
\* name before, left the other tag rows as they were, linked the new question
\* to the tag of every name of T, and a following GetTags includes, for every
\* name of T, the stored name equal to it.
C13_TagsCreatedByCollation ==
    Added =>
        /\ tags = tx.before.tags \cup tx.newTags
        /\ CreatedNames =
            {tx.q.Tags[k] : k \in {j \in DOMAIN tx.q.Tags :
                ~\E t \in tx.before.tags : CollEq(t.name, tx.q.Tags[j])}}
        /\ Cardinality(tx.newTags) = Cardinality(CreatedNames)
        /\ \A k \in DOMAIN tx.q.Tags : \E t \in tags :
            /\ CollEq(t.name, tx.q.Tags[k])
            /\ [question_id |-> tx.questionID, tag_id |-> t.id] \in question_tags
        /\ call.op = "GetTags" =>
            /\ call.err = "nil"
            /\ \A k \in DOMAIN tx.q.Tags :
                \E i \in DOMAIN call.names : CollEq(call.names[i], tx.q.Tags[k])

\* a call with two tags, one stored before and one new, returned nil and
\* GetTags was called after it
C13_Witness ==
    /\ Added /\ Len(tx.q.Tags) = 2
    /\ Cardinality(tx.newTags) = 1
    /\ \E t \in tx.before.tags : CollEq(t.name, tx.q.Tags[1])
    /\ call.op = "GetTags" /\ Len(call.names) = 2

\* C15: every stored question has type exactly "truth" or "dare", and an
\* AddQuestion call with any other type string has returned an error and
\* left the tables as they were.
C15_TypeExactlyTruthOrDare ==
    /\ \A q \in questions : q.type \in {truth, dare}
    /\ (Returned /\ tx.q.Type \notin {truth, dare}) => (Failed /\ Tables = tx.before)

\* C19: storage is append-only. No step removes or changes a committed
\* question row, tag row or association; a step of GetQuestions or GetTags
\* (one that sets or clears the read call) leaves the three tables as they
\* are; the step with which AddQuestion returns nil adds exactly one question
\* row, under an identifier no row had.
C19_AppendOnly ==
    [][/\ questions \subseteq questions'
       /\ tags \subseteq tags'
       /\ question_tags \subseteq question_tags'
       /\ call' # call => UNCHANGED <<questions, tags, question_tags>>
       /\ (tx.pc # "returned" /\ tx'.pc = "returned" /\ tx'.err = "nil") =>
            /\ Cardinality(questions' \ questions) = 1
            /\ \A n \in questions' \ questions : \A q \in questions : q.id # n.id
      ]_vars

\* a second question has been added to a stored one, with a tag of its own,
\* and a listing has read both
C19_Witness ==
    /\ Added /\ tx.before.questions # {} /\ tx.newTags # {}
    /\ Succeeded /\ Len(call.questions) = 2

\* C16: GetQuestions returns the full result list or an error, never a part
\* of the list: a return with a nil error carries every row of the result of
\* its query, and a return with an error carries no list.
C16_FullListOrError ==
    [][(call = NoCall /\ call'.op = "GetQuestions") =>
        IF call'.err = "nil"
        THEN \E rows \in QueryRows(call'.query, call'.args,
                                    questions, tags, question_tags) :
                call'.questions = MapRows(rows)
        ELSE call'.questions = <<>>
      ]_vars

\* C17: for every returned question the tag list of the row mapping holds
\* each name of a tag linked to the question once and nothing else; it is the
\* empty list for a question without tags.
C17_TagListIsLinkedNames ==
    Succeeded =>
        \A i \in DOMAIN call.questions :
            LET r == call.questions[i]
            IN  /\ Range(r.Tags) = LinkedNames(r.ID)
                /\ Len(r.Tags) = Cardinality(LinkedNames(r.ID))

\* a returned list as a set of questions, each with its tags as a set
AsSet(list) ==
    {[ID |-> list[i].ID, Language |-> list[i].Language, Type |-> list[i].Type,
      Task |-> list[i].Task, Tags |-> Range(list[i].Tags)] : i \in DOMAIN list}

\* C18: against the storage as it is, GetQuestions called again with the
\* criteria of a call that succeeded succeeds, and whatever rows storage
\* delivers to it, in whatever order, it returns the same set of questions:
\* the same identifiers, fields and tag sets.
C18_SameSetOnRerun ==
    Succeeded =>
        LET b == BuildQuery(call.language, call.qType, call.tags, call.config)
        IN  /\ ~QueryFails(b.text, b.args)
            /\ \A rows \in QueryRows(b.text, b.args, questions, tags, question_tags) :
                AsSet(MapRows(rows)) = AsSet(call.questions)

\* the call returned two questions, one of them with two tags: storage can
\* deliver the rows, and the names of the tags, in more than one order
C18_Witness ==
    /\ Succeeded /\ Len(call.questions) = 2
    /\ \E i \in DOMAIN call.questions : Len(call.questions[i].Tags) = 2

\* the associations a call wrote are as many as its inserts that succeeded
LinksWritten(t) ==
    t.pc # "idle" =>
        Cardinality(t.newLinks) =
            Cardinality({p \in DOMAIN t.log :
                            t.log[p] = Entry("INSERT question_tags", "ok")})

\* C14: in every reachable storage state no two tag rows have the same name
\* or the same identifier, no two question rows have the same identifier,
\* every insert into question_tags that succeeded wrote a pair of its own (no
\* pair is stored twice), and every association refers to a stored question
\* and a stored tag.
C14_StorageConstraints ==
    /\ \A a, b \in tags : a # b => (~CollEq(a.name, b.name) /\ a.id # b.id)
    /\ \A a, b \in questions : a # b => a.id # b.id
    /\ LinksWritten(tx) /\ LinksWritten(other)
    /\ \A l \in question_tags :
        /\ \E q \in questions : q.id = l.question_id
        /\ \E t \in tags : t.id = l.tag_id

\* two calls that both began on the empty storage have both committed, and
\* their questions are linked to the same tag, which one of them created
C14_Witness ==
    /\ tx.pc = "returned" /\ tx.err = "nil" /\ tx.before.questions = {}
    /\ other.pc = "returned" /\ other.err = "nil" /\ other.before.questions = {}
    /\ \E t \in tags :
        /\ [question_id |-> tx.questionID, tag_id |-> t.id] \in question_tags
        /\ [question_id |-> other.questionID, tag_id |-> t.id] \in question_tags

\* the returns GetQuestions can make for the criteria against the storage as
\* it is: the error of a query storage rejects, or one list for each order in
\* which storage can deliver the rows
ResultsOf(language, qType, tagList, config) ==
    LET b == BuildQuery(language, qType, tagList, config)
    IN  IF QueryFails(b.text, b.args)
        THEN {[questions |-> <<>>, err |-> "failed to fetch questions"]}
        ELSE {[questions |-> MapRows(rows), err |-> "nil"] :
                rows \in QueryRows(b.text, b.args, questions, tags, question_tags)}

\* C24: a nil config is QueryConfig{MatchAllTags: false}. For the language,
\* type and tag list of any call and the storage as it is, the returns
\* GetQuestions can make with a nil config are those it can make with
\* MatchAllTags false, and the return of a call made with a nil config is one
\* of them.
C24_NilConfigIsAnyMode ==
    IsGet =>
        LET withNil == ResultsOf(call.language, call.qType, call.tags, NilConfig)
            withAny == ResultsOf(call.language, call.qType, call.tags, Config(FALSE))
        IN  /\ withNil = withAny
            /\ call.config.nil =>
                [questions |-> call.questions, err |-> call.err] \in withAny

\* a call with a nil config and two tags returned a question that is linked
\* to one of them only: ALL mode would not have returned it
C24_Witness ==
    /\ Succeeded /\ call.config.nil /\ Len(call.tags) = 2
    /\ \E id \in ReturnedIDs :
        LinkedTo(id, call.tags[1]) /\ ~LinkedTo(id, call.tags[2])

\* C26: ALL mode is complete. With MatchAllTags true and a non-empty tag list,
\* names repeated or not, every stored question that passes the language and
\* type filters and is linked to every requested name is returned.
C26_AllModeComplete ==
    AllMode =>
        /\ call.err = "nil"
        /\ \A id \in PassingIDs :
            (\A k \in DOMAIN call.tags : LinkedTo(id, call.tags[k])) => id \in ReturnedIDs

\* the associations in storage of the question of the call to the tag that
\* storage resolves the name to
LinksTo(name) ==
    {l \in question_tags :
        /\ l.question_id = tx.questionID
        /\ \E t \in tags : t.id = l.tag_id /\ CollEq(t.name, name)}

\* C27: linking is idempotent per (question, tag) pair. An AddQuestion call
\* whose tag list names the same tag more than once returns nil and leaves the
\* new question with exactly one association to each tag it named.
C27_RepeatedTagLinkedOnce ==
    (Returned /\ \E i, j \in DOMAIN tx.q.Tags :
                    i # j /\ CollEq(tx.q.Tags[i], tx.q.Tags[j])) =>
        /\ tx.err = "nil"
        /\ \A k \in DOMAIN tx.q.Tags : Cardinality(LinksTo(tx.q.Tags[k])) = 1

NoTables == [questions |-> {}, tags |-> {}, question_tags |-> {}]

RECURSIVE LinkAlone(_, _, _, _)
\* the loop of lines 244-269 run with no step of another call in between,
\* from the tag names in storage and the names linked so far: the name is
\* looked up, created when absent, and linked unless it is linked already
LinkAlone(names, linked, tagList, i) ==
    IF i > Len(tagList)
    THEN [err |-> "nil", names |-> names, stored |-> TRUE, linked |-> linked]
    ELSE LET found == {n \in names : CollEq(n, tagList[i])}
             name == IF found = {} THEN tagList[i] ELSE CHOOSE n \in found : TRUE
         IN  IF name \in linked
             THEN [err |-> "failed to insert question tag", names |-> {},
                   stored |-> FALSE, linked |-> {}]
             ELSE LinkAlone(names \cup {name}, linked \cup {name}, tagList, i + 1)

\* AddQuestion(q) run alone on a storage with these tag names: what it
\* returns, the tag names it leaves, and the question with its tag names if
\* it stored one
Alone(names, q) ==
    IF EnumInsertIndex(q.Type) = 0
    THEN [err |-> "failed to insert question", names |-> {}, stored |-> FALSE,
          linked |-> {}]
    ELSE LinkAlone(names, {}, q.Tags, 1)

\* the first call run alone on the empty storage, then the second
OneAfterTheOther(first, second) ==
    LET a == Alone({}, first)
        b == Alone(IF a.stored THEN a.names ELSE {}, second)
    IN  [errs |-> <<a.err, b.err>>,
         stored |-> <<a.stored, b.stored>>,
         linked |-> <<a.linked, b.linked>>,
         names |-> IF b.stored THEN b.names ELSE IF a.stored THEN a.names ELSE {}]

\* what the call t returned and left in storage
Outcome(t) ==
    [err |-> t.err,
     stored |-> \E q \in questions : q.id = t.questionID,
     linked |-> LinkedNames(t.questionID)]

\* what the two calls returned and left, the call a named first
Observed(a, b) ==
    [errs |-> <<Outcome(a).err, Outcome(b).err>>,
     stored |-> <<Outcome(a).stored, Outcome(b).stored>>,
     linked |-> <<Outcome(a).linked, Outcome(b).linked>>,
     names |-> {t.name : t \in tags}]

\* both clients' calls have returned, one of them began on the empty storage
\* and no third call has stored a question
PairReturned ==
    /\ tx.pc = "returned" /\ other.pc = "returned"
    /\ tx.before = NoTables \/ other.before = NoTables
    /\ \A q \in questions : q.id \in {tx.questionID, other.questionID}

\* C25: concurrent AddQuestion calls are serialized. However the steps of two
\* calls are interleaved, what the two calls return and what storage holds in
\* the end (the tag names, and for each call whether its question is stored
\* and the names linked to it) is what running the two calls one after the
\* other, in one of the two orders, returns and leaves.
C25_Serialized ==
    PairReturned =>
        \/ Observed(tx, other) = OneAfterTheOther(tx.q, other.q)
        \/ Observed(other, tx) = OneAfterTheOther(other.q, tx.q)

\* the storage call with which the listing ended
LastCall == call.log[Len(call.log)]

\* C21: GetQuestions tells its two kinds of failure apart and returns no list
\* with either. It returns "failed to fetch questions" exactly when db.Query
\* failed and "failed to parse question" exactly when rows.Scan failed on a
\* row; the list is nil whenever the error is not. GetTags returns "failed to
\* fetch tags" and no list when its db.Query failed.
C21_FailureKinds ==
    /\ IsGet =>
        /\ call.err = "failed to fetch questions" <=> LastCall = Entry("Query", "error")
        /\ call.err = "failed to parse question" <=> LastCall = Entry("Scan", "error")
        /\ call.err \in {"nil", "failed to fetch questions", "failed to parse question"}
        /\ call.err # "nil" => call.questions = <<>>
    /\ call.op = "GetTags" =>
        /\ call.err = "failed to fetch tags" <=> LastCall = Entry("Query", "error")
        /\ call.err # "nil" => call.names = <<>>

\* a listing of questions failed on a row after it had decoded one
C21_Witness ==
    /\ IsGet /\ call.err = "failed to parse question"
    /\ Entry("Scan", "ok") \in Range(call.log)

\* C22: GetTags returns every tag name in storage exactly once and nothing
\* else, tags linked to no question included.
C22_GetTagsExact ==
    (call.op = "GetTags" /\ call.err = "nil") =>
        /\ Range(call.names) = {t.name : t \in tags}
        /\ Len(call.names) = Cardinality(tags)

\* the attempts of NewDatabase that connected
Connected == {k \in DOMAIN startup.attempts : startup.attempts[k] = "connected"}

\* C23: NewDatabase terminates after at most 10 attempts. It makes no attempt
\* after one whose open and ping both succeeded and returns the Database
\* next; it returns (nil, error) exactly when it made 10 attempts and all
\* failed; and it does return.
C23_AtMostTenAttempts ==
    /\ [](/\ Len(startup.attempts) <= MaxAttempts
          /\ Connected \subseteq {Len(startup.attempts)}
          /\ (Connected # {} /\ startup.pc # "returned") => startup.pc = "after"
          /\ startup.pc = "returned" =>
                /\ startup.returned \in {"Database", "error"}
                /\ startup.returned = "Database" <=> Connected # {}
                /\ startup.returned = "error" <=>
                    (Len(startup.attempts) = MaxAttempts /\ Connected = {}))
    /\ <>(startup.pc = "returned")

\* NewDatabase returned the Database after nine attempts that failed
C23_Witness ==
    /\ startup.pc = "returned" /\ startup.returned = "Database"
    /\ Len(startup.attempts) = MaxAttempts

\* the game area is on screen: startGame has run and resetGame has not
GameActive == page.gameArea = "block"

\* C28: while the game area is active the player list holds at least 2
\* players, every name is non-empty, no two names are equal ignoring case,
\* and currentPlayerIndex is an index of the list, whatever addPlayer,
\* removePlayer, startGame, selectTruth, selectDare and resetGame calls the
\* page has made.
C28_ActiveGameHasPlayers ==
    GameActive =>
        /\ Len(page.players) >= 2
        /\ \A k \in DOMAIN page.players : page.players[k] # Empty
        /\ \A j, k \in DOMAIN page.players :
            j # k => toLowerCase(page.players[j]) # toLowerCase(page.players[k])
        /\ page.currentPlayerIndex \in 0..(Len(page.players) - 1)

\* a game of three players is on, the turn is with the last of them and has
\* gone round once
C28_Witness ==
    /\ GameActive /\ Len(page.players) = MaxPlayers
    /\ page.currentPlayerIndex = MaxPlayers - 1 /\ Len(page.tasksFor) > MaxPlayers

\* used holds no task twice and only tasks of the pool
UsedOnce(used, pool) ==
    /\ Range(used) \subseteq Range(pool)
    /\ Cardinality(Range(used)) = Len(used)

\* the step is a selection that showed a task of the kind
Selects(kind) ==
    /\ page'.tasksFor # page.tasksFor /\ page'.tasksFor # <<>>
    /\ page'.taskText.kind = kind

\* used' continues used: nothing was taken out of it
Continues(used, usedAfter) ==
    Len(used) <= Len(usedAfter) /\ SubSeq(usedAfter, 1, Len(used)) = used

\* the step starts a game
GameStarts == page.gameArea = "none" /\ page'.gameArea = "block"

\* C29: usedTruths never holds a truth twice and holds truths of the pool
\* only; it loses an entry only in a step that finds it covering the whole
\* pool or that starts a game; a truth that is shown is not in usedTruths,
\* unless usedTruths covers the pool; and a selection of a truth leaves
\* usedDares as it is. The same holds with truths and dares exchanged.
C29_NoRepeatBeforePoolUsed ==
    /\ UsedOnce(page.usedTruths, truths) /\ UsedOnce(page.usedDares, dares)
    /\ [][/\ UsedOnce(page'.usedTruths, truths)
          /\ UsedOnce(page'.usedDares, dares)
          /\ ~Continues(page.usedTruths, page'.usedTruths) =>
                (Range(page.usedTruths) = Range(truths) \/ GameStarts)
          /\ ~Continues(page.usedDares, page'.usedDares) =>
                (Range(page.usedDares) = Range(dares) \/ GameStarts)
          /\ Selects("Truth") =>
                /\ page'.usedDares = page.usedDares
                /\ page'.taskText.task \in Range(truths)
                /\ \/ page'.taskText.task \notin Range(page.usedTruths)
                   \/ Range(page.usedTruths) = Range(truths)
          /\ Selects("Dare") =>
                /\ page'.usedTruths = page.usedTruths
                /\ page'.taskText.task \in Range(dares)
                /\ \/ page'.taskText.task \notin Range(page.usedDares)
                   \/ Range(page.usedDares) = Range(dares)
         ]_vars

\* four truths and a dare have been selected in a game: the fourth truth
\* found usedTruths covering the pool
C29_Witness ==
    /\ GameActive /\ Len(page.tasksFor) = 5
    /\ Len(page.usedTruths) = 1 /\ Len(page.usedDares) = 1

\* C30: in a game the k-th task goes to the player at position (k - 1) mod n
\* of the n players, so the first goes to the first player; after k
\* selections currentPlayerIndex is k mod n, the page names the player at
\* that index as the current one, and any n consecutive selections give each
\* player exactly one task.
C30_TurnsGoRound ==
    GameActive =>
        LET n == Len(page.players)
            given == page.tasksFor
        IN  /\ \A k \in DOMAIN given : given[k] = PlayerAt(page, (k - 1) % n)
            /\ page.currentPlayerIndex = Len(given) % n
            /\ page.currentPlayerInfo = PlayerAt(page, page.currentPlayerIndex)
            /\ given # <<>> => page.taskPlayerInfo = given[Len(given)]
            /\ \A k \in DOMAIN given :
                k + n - 1 <= Len(given) =>
                    \A p \in Range(page.players) :
                        Cardinality({j \in k..(k + n - 1) : given[j] = p}) = 1

\* a game of three players in which truths and dares have been selected and
\* the turn has gone round twice
C30_Witness ==
    /\ GameActive /\ Len(page.players) = 3 /\ Len(page.tasksFor) = MaxTurns
    /\ page.usedTruths # <<>> /\ page.usedDares # <<>>

====
